---- MODULE Spec2Model ----
(***************************************************************************)
(* Model of economic_calendar_bot.py: the fetch / normalise / validate /   *)
(* cache / deliver pipeline of one scheduled job, run any number of times  *)
(* against one persisted cache file.                                       *)
(*                                                                         *)
(* A text is a sequence of atoms.  An atom is a run of characters that the *)
(* program never splits: a marker (the chart emoji, a star, a parenthesis),*)
(* a section label, the symbol between two parentheses, a line of prose.   *)
(* Substring tests of the code are tests for a run of atoms.               *)
(***************************************************************************)
EXTENDS Integers, Sequences, FiniteSets, TLC

\* ---------------------------------------------------------------- atoms

\* U+1F4CA, the leading emoji (one code point).
EMOJI == "<U+1F4CA>"
\* U+26A0 U+FE0F, the warning sign of the stale-data banner (two code points).
WARN == "<U+26A0><U+FE0F>"
\* U+2022, the bullet of a calendar line (one code point).
BULLET == "<U+2022>"
STAR == "*"
LPAREN == "("
RPAREN == ")"
NL == "\n"
SP == " "
HEADER == "US & Canada Market Calendar"
ECON == "Economic Data:"
EARN == "Earnings:"

\* len() of one atom: Python counts code points.
AtomLen(a) ==
  IF a = EMOJI THEN 1
  ELSE IF a = WARN THEN 2
  ELSE IF a = BULLET THEN 1
  ELSE Len(a)

RECURSIVE TextLen(_)
\* len(text)
TextLen(text) ==
  IF text = <<>> THEN 0 ELSE AtomLen(Head(text)) + TextLen(Tail(text))

\* Python's None, and a str value, as one kind of value.
None == [isNone |-> TRUE, text |-> <<>>]
Str(t) == [isNone |-> FALSE, text |-> t]
\* Python truthiness of a str-or-None: None and "" are falsy.
Truthy(v) == ~v.isNone /\ v.text # <<>>

\* pat in text, for a run of atoms pat.
HasSub(text, pat) ==
  \E i \in 1..(Len(text) - Len(pat) + 1) :
    SubSeq(text, i, i + Len(pat) - 1) = pat

\* text.index(atom): the first position of the atom (0 when absent).
IndexOf(text, a) ==
  IF \E i \in 1..Len(text) : text[i] = a
  THEN CHOOSE i \in 1..Len(text) :
         text[i] = a /\ \A j \in 1..(i - 1) : text[j] # a
  ELSE 0

\* text[idx:]
From(text, i) == SubSeq(text, i, Len(text))

\* ---------------------------------------------------------------- watchlist

WATCHLIST_US ==
  <<"TSLA", "NVDA", "AMZN", "AAPL", "META", "MSFT", "PLTR", "GOOG", "GOOGL",
    "AMD", "IREN", "SOFI", "NFLX", "MSTR", "BRK.B", "RKLB", "AVGO", "TSM",
    "MU", "HOOD", "NBIS", "ASTS">>
WATCHLIST_CAD ==
  <<"ENB", "SHOP", "TD", "RY", "T", "BNS", "BCE", "IAG", "CNQ", "CM", "POW",
    "BMO", "DOL", "CLS", "PSLV", "WCP", "CSU", "SU", "SCZ", "BN", "CNR">>

\* [f"{t}.TO" for t in WATCHLIST_CAD]
WithTO(tickers) == [i \in 1..Len(tickers) |-> tickers[i] \o ".TO"]

WATCHLIST_ALL == WATCHLIST_US \o WATCHLIST_CAD \o WithTO(WATCHLIST_CAD)

\* str.lower() of the atoms that hold an upper-case letter.
LowerTable ==
  ("TSLA" :> "tsla") @@ ("NVDA" :> "nvda") @@ ("AMZN" :> "amzn") @@
  ("AAPL" :> "aapl") @@ ("META" :> "meta") @@ ("MSFT" :> "msft") @@
  ("PLTR" :> "pltr") @@ ("GOOG" :> "goog") @@ ("GOOGL" :> "googl") @@
  ("AMD" :> "amd") @@ ("IREN" :> "iren") @@ ("SOFI" :> "sofi") @@
  ("NFLX" :> "nflx") @@ ("MSTR" :> "mstr") @@ ("BRK.B" :> "brk.b") @@
  ("RKLB" :> "rklb") @@ ("AVGO" :> "avgo") @@ ("TSM" :> "tsm") @@
  ("MU" :> "mu") @@ ("HOOD" :> "hood") @@ ("NBIS" :> "nbis") @@
  ("ASTS" :> "asts") @@ ("ENB" :> "enb") @@ ("SHOP" :> "shop") @@
  ("TD" :> "td") @@ ("RY" :> "ry") @@ ("T" :> "t") @@ ("BNS" :> "bns") @@
  ("BCE" :> "bce") @@ ("IAG" :> "iag") @@ ("CNQ" :> "cnq") @@ ("CM" :> "cm") @@
  ("POW" :> "pow") @@ ("BMO" :> "bmo") @@ ("DOL" :> "dol") @@
  ("CLS" :> "cls") @@ ("PSLV" :> "pslv") @@ ("WCP" :> "wcp") @@
  ("CSU" :> "csu") @@ ("SU" :> "su") @@ ("SCZ" :> "scz") @@ ("BN" :> "bn") @@
  ("CNR" :> "cnr") @@ ("ENB.TO" :> "enb.to") @@ ("SHOP.TO" :> "shop.to") @@
  ("TD.TO" :> "td.to") @@ ("RY.TO" :> "ry.to") @@ ("T.TO" :> "t.to") @@
  ("BNS.TO" :> "bns.to") @@ ("BCE.TO" :> "bce.to") @@ ("IAG.TO" :> "iag.to") @@
  ("CNQ.TO" :> "cnq.to") @@ ("CM.TO" :> "cm.to") @@ ("POW.TO" :> "pow.to") @@
  ("BMO.TO" :> "bmo.to") @@ ("DOL.TO" :> "dol.to") @@ ("CLS.TO" :> "cls.to") @@
  ("PSLV.TO" :> "pslv.to") @@ ("WCP.TO" :> "wcp.to") @@
  ("CSU.TO" :> "csu.to") @@ ("SU.TO" :> "su.to") @@ ("SCZ.TO" :> "scz.to") @@
  ("BN.TO" :> "bn.to") @@ ("CNR.TO" :> "cnr.to") @@ ("Shop.to" :> "shop.to") @@
  ("NOTE:" :> "note:") @@ ("Important Note" :> "important note") @@
  ("Note:" :> "note:") @@ ("Economic Data:" :> "economic data:") @@
  ("Earnings:" :> "earnings:") @@
  ("US & Canada Market Calendar" :> "us & canada market calendar") @@
  ("Here is the result:" :> "here is the result:") @@
  (" - Monday" :> " - monday") @@ (" - Tuesday" :> " - tuesday") @@
  ("Sure. " :> "sure. ") @@
  (" 10:00 ET: ISM Manufacturing PMI" :> " 10:00 et: ism manufacturing pmi") @@
  (" 08:30 ET: CPI" :> " 08:30 et: cpi") @@
  (" After Market: Apple " :> " after market: apple ") @@
  (" Before Market: Shopify " :> " before market: shopify ") @@
  (" No major releases scheduled" :> " no major releases scheduled") @@
  (" No major earnings scheduled" :> " no major earnings scheduled") @@
  (" Data may change." :> " data may change.") @@
  ("I could not find a calendar for that date, sorry about that." :> "i could not find a calendar for that date, sorry about that.") @@
  ("Disclaimer" :> "disclaimer") @@ ("SHUTDOWN" :> "shutdown") @@
  ("Beyond Current" :> "beyond current") @@ ("AAPLX" :> "aaplx")

\* str.lower() of one atom.
Lower(a) == IF a \in DOMAIN LowerTable THEN LowerTable[a] ELSE a

\* text.lower()
LowerText(text) == [i \in 1..Len(text) |-> Lower(text[i])]

\* The match without re.IGNORECASE.
MatchesTicker_CaseSensitive(a, ticker) == a = ticker

\* re.IGNORECASE match of a whole parenthesised symbol against a ticker.
MatchesTicker(a, ticker) == Lower(a) = Lower(ticker)

\* ---------------------------------------------------------------- dates

\* A date is a day number; day 0 is a Monday.  datetime.weekday(): Monday is 0.
Weekday(d) == d % 7

\* strftime("%A")
WeekdayName(d) ==
  <<"Monday", "Tuesday", "Wednesday", "Thursday", "Friday", "Saturday",
    "Sunday">>[Weekday(d) + 1]

\* strftime("%A, %B %d, %Y"): the weekday name and the calendar day.
LongDate(d) == WeekdayName(d) \o ", day " \o ToString(d)

\* datetime.now().isoformat()
IsoFormat(d) == "T" \o ToString(d)

\* get_next_trading_day without the Saturday branch.
get_next_trading_day_NoSaturday(today) ==
  LET days_ahead ==
        IF Weekday(today) = 4 THEN 3
        ELSE IF Weekday(today) = 6 THEN 1
        ELSE 1
  IN  today + days_ahead

\* get_next_trading_day, with today = datetime.now() as its input.
get_next_trading_day(today) ==
  LET days_ahead ==
        IF Weekday(today) = 4 THEN 3
        ELSE IF Weekday(today) = 5 THEN 2
        ELSE IF Weekday(today) = 6 THEN 1
        ELSE 1
  IN  today + days_ahead

\* ---------------------------------------------------------------- normaliser

RECURSIVE ReSubTicker(_, _)
\* re.sub(rf'\((?<!\*)({ticker})(?!\*)\)', r'(*\1*)', text, flags=re.IGNORECASE):
\* the lookbehind reads the character before the symbol, which is the "("
\* just matched; the lookahead reads the one after it, which must be ")".
ReSubTicker(text, ticker) ==
  IF Len(text) < 3 THEN text
  ELSE IF /\ text[1] = LPAREN
          /\ text[1] # STAR
          /\ MatchesTicker(text[2], ticker)
          /\ text[3] # STAR
          /\ text[3] = RPAREN
       THEN <<LPAREN, STAR, text[2], STAR, RPAREN>>
              \o ReSubTicker(From(text, 4), ticker)
       ELSE <<text[1]>> \o ReSubTicker(Tail(text), ticker)

RECURSIVE BoldEach(_, _)
\* for ticker in tickers: text = re.sub(...)
BoldEach(text, tickers) ==
  IF tickers = <<>> THEN text
  ELSE LET substituted == ReSubTicker(text, Head(tickers))
       IN  IF Len(substituted) >= 0
           THEN BoldEach(substituted, Tail(tickers))
           ELSE substituted

bold_watchlist_tickers(text) == BoldEach(text, WATCHLIST_ALL)

RECURSIVE ReplaceDoubleStar(_)
\* text.replace("**", "*"): left to right, without overlap.
ReplaceDoubleStar(text) ==
  IF text = <<>> THEN <<>>
  ELSE IF Len(text) >= 2 /\ text[1] = STAR /\ text[2] = STAR
       THEN <<STAR>> \o ReplaceDoubleStar(From(text, 3))
       ELSE <<Head(text)>> \o ReplaceDoubleStar(Tail(text))

\* The marker loop body without the prepended emoji.
CutAt_NoPrepend(text, marker) == From(text, IndexOf(text, marker))

\* The body of the marker loop for a marker the text holds.
CutAt(text, marker) ==
  LET cut == From(text, IndexOf(text, marker))
  IN  IF Head(cut) = EMOJI THEN cut ELSE <<EMOJI, SP>> \o cut

\* for marker in [EMOJI, HEADER]: if marker in text: ...; break
StripPreamble(text) ==
  IF HasSub(text, <<EMOJI>>) THEN CutAt(text, EMOJI)
  ELSE IF HasSub(text, <<HEADER>>) THEN CutAt(text, HEADER)
  ELSE text

\* Lines 294-307: the three rewrites, in order.
Normalize(text) ==
  bold_watchlist_tickers(ReplaceDoubleStar(StripPreamble(text)))

\* ---------------------------------------------------------------- validator

IsSpace(a) == a \in {SP, NL}

RECURSIVE LStrip(_)
LStrip(text) ==
  IF text # <<>> /\ IsSpace(Head(text)) THEN LStrip(Tail(text)) ELSE text

RECURSIVE RStrip(_)
RStrip(text) ==
  IF text # <<>> /\ IsSpace(text[Len(text)])
  THEN RStrip(SubSeq(text, 1, Len(text) - 1))
  ELSE text

\* text.strip()
Strip(text) == RStrip(LStrip(text))

\* text.startswith(atom)
StartsWith(text, a) == text # <<>> /\ Head(text) = a

unwanted ==
  <<"Important Note", "Note:", "disclaimer", "not available", "shutdown",
    "beyond current">>

\* The denylist loop comparing without lower().
UnwantedHits_CaseSensitive(text) ==
  {i \in 1..Len(unwanted) : HasSub(text, <<unwanted[i]>>)}

\* The phrases of the denylist found in the text, by position in the list.
UnwantedHits(text) ==
  {i \in 1..Len(unwanted) : HasSub(LowerText(text), <<Lower(unwanted[i])>>)}

Min(S) == CHOOSE x \in S : \A y \in S : x <= y

\* validate_calendar: (is_valid, error)
validate_calendar(text) ==
  IF text = <<>> THEN
    [ok |-> FALSE, reason |-> Str(<<"Empty response">>)]
  ELSE IF TextLen(text) < 50 THEN
    [ok |-> FALSE,
     reason |-> Str(<<"Response too short (", ToString(TextLen(text)),
                      " chars)">>)]
  ELSE IF ~StartsWith(Strip(text), EMOJI) THEN
    [ok |-> FALSE,
     reason |-> Str(<<"Response doesn't start with ", EMOJI,
                      " (has preamble)">>)]
  ELSE IF ~HasSub(text, <<STAR, ECON, STAR>>) /\ ~HasSub(text, <<ECON>>) THEN
    [ok |-> FALSE, reason |-> Str(<<"Missing Economic Data section">>)]
  ELSE IF ~HasSub(text, <<STAR, EARN, STAR>>) /\ ~HasSub(text, <<EARN>>) THEN
    [ok |-> FALSE, reason |-> Str(<<"Missing Earnings section">>)]
  ELSE IF UnwantedHits(text) # {} THEN
    [ok |-> FALSE,
     reason |-> Str(<<"Contains unwanted explanatory text: '",
                      unwanted[Min(UnwantedHits(text))], "'">>)]
  ELSE [ok |-> TRUE, reason |-> None]

\* ---------------------------------------------------------------- JSON

\* json.dumps of one character run (ensure_ascii): a code point above U+FFFF
\* becomes a surrogate pair of escapes, a line feed becomes \n.
JsonEscapeAtom(a) ==
  IF a = EMOJI THEN <<"\\ud83d", "\\udcca">>
  ELSE IF a = WARN THEN <<"\\u26a0", "\\ufe0f">>
  ELSE IF a = BULLET THEN <<"\\u2022">>
  ELSE IF a = NL THEN <<"\\n">>
  ELSE <<a>>

RECURSIVE JsonEscape(_)
\* json.dumps of a str (without the quotes around it).
JsonEscape(text) ==
  IF text = <<>> THEN <<>>
  ELSE JsonEscapeAtom(Head(text)) \o JsonEscape(Tail(text))

RECURSIVE JsonUnescape(_)
\* json.loads of a str: the escapes back to characters, a surrogate pair
\* back to one code point.
JsonUnescape(text) ==
  IF text = <<>> THEN <<>>
  ELSE IF Len(text) >= 2 /\ text[1] = "\\ud83d" /\ text[2] = "\\udcca"
       THEN <<EMOJI>> \o JsonUnescape(From(text, 3))
  ELSE IF Len(text) >= 2 /\ text[1] = "\\u26a0" /\ text[2] = "\\ufe0f"
       THEN <<WARN>> \o JsonUnescape(From(text, 3))
  ELSE IF text[1] = "\\u2022" THEN <<BULLET>> \o JsonUnescape(Tail(text))
  ELSE IF text[1] = "\\n" THEN <<NL>> \o JsonUnescape(Tail(text))
  ELSE <<text[1]>> \o JsonUnescape(Tail(text))

\* ---------------------------------------------------------------- cache file

\* The state of CACHE_FILE.  kind: "missing" (no file), "unreadable" (read_text
\* raises), "garbage" (not JSON: empty, truncated), "null" (the JSON null),
\* "array" (a non-empty JSON array), "object" (a JSON object with the given
\* keys; date, content and cached_at are the escaped strings stored under
\* them).
FileOf(kind, keys, date, content, cached_at) ==
  [kind |-> kind, keys |-> keys, date |-> date, content |-> content,
   cached_at |-> cached_at]

NoFile == FileOf("missing", {}, <<>>, <<>>, <<>>)
UnreadableFile == FileOf("unreadable", {}, <<>>, <<>>, <<>>)
GarbageFile == FileOf("garbage", {}, <<>>, <<>>, <<>>)
NullFile == FileOf("null", {}, <<>>, <<>>, <<>>)
ArrayFile == FileOf("array", {}, <<>>, <<>>, <<>>)
EmptyObjectFile == FileOf("object", {}, <<>>, <<>>, <<>>)

\* A Python value read from the cache: None, a list, or a dict of str.
PyNone == [type |-> "NoneType", keys |-> {}, date |-> <<>>, content |-> <<>>,
           cached_at |-> <<>>]
PyList == [type |-> "list", keys |-> {}, date |-> <<>>, content |-> <<>>,
           cached_at |-> <<>>]
PyDict(keys, date, content, cached_at) ==
  [type |-> "dict", keys |-> keys, date |-> date, content |-> content,
   cached_at |-> cached_at]

\* Python truthiness of such a value: None and {} are falsy.
PyTruthy(v) == v.type = "list" \/ (v.type = "dict" /\ v.keys # {})

\* json.dumps({"date": ..., "content": ..., "cached_at": ...}) written as the
\* whole file.
json_dumps(date_str, calendar, cached_at) ==
  FileOf("object", {"date", "content", "cached_at"}, JsonEscape(date_str),
         JsonEscape(calendar), JsonEscape(cached_at))

\* json.loads(CACHE_FILE.read_text()) of a file that holds JSON.
json_loads(file) ==
  IF file.kind = "null" THEN PyNone
  ELSE IF file.kind = "array" THEN PyList
  ELSE PyDict(file.keys, JsonUnescape(file.date), JsonUnescape(file.content),
              JsonUnescape(file.cached_at))

\* The ways CACHE_FILE.write_text can end: written; open() fails and the file
\* is left as it was; the file is truncated by open() and the write fails.
WriteOutcomes == {"written", "open_fails", "write_fails"}

\* save_to_cache that keeps a record the file already holds.
save_to_cache_KeepsFirst(calendar, date_str, now, file, io) ==
  IF io = "written" THEN
    IF "content" \in file.keys THEN file
    ELSE json_dumps(<<date_str>>, calendar, <<IsoFormat(now)>>)
  ELSE IF io = "open_fails" THEN file
  ELSE GarbageFile

\* save_to_cache: the file it leaves.  Every exception is caught and logged.
save_to_cache(calendar, date_str, now, file, io) ==
  IF io = "written" THEN json_dumps(<<date_str>>, calendar, <<IsoFormat(now)>>)
  ELSE IF io = "open_fails" THEN file
  ELSE GarbageFile

\* load_from_cache: the value it returns.  A missing file skips the read; a
\* failing read_text or json.loads is caught and None is returned.
load_from_cache(file) ==
  IF file.kind = "missing" THEN PyNone
  ELSE IF file.kind \in {"unreadable", "garbage"} THEN PyNone
  ELSE json_loads(file)

\* ---------------------------------------------------------------- responses

\* A calendar as the generator writes it: markdown bold, a watchlist symbol.
CalendarA ==
  <<EMOJI, SP, HEADER, " - Monday", NL,
    STAR, STAR, ECON, STAR, STAR, NL,
    BULLET, " 10:00 ET: ISM Manufacturing PMI", NL,
    STAR, STAR, EARN, STAR, STAR, NL,
    BULLET, " After Market: Apple ", LPAREN, "AAPL", RPAREN>>

\* A calendar already in Slack bold, with a Canadian symbol in mixed case.
CalendarB ==
  <<EMOJI, SP, HEADER, " - Tuesday", NL,
    STAR, ECON, STAR, NL,
    BULLET, " No major releases scheduled", NL,
    STAR, EARN, STAR, NL,
    BULLET, " Before Market: Shopify ", LPAREN, "Shop.to", RPAREN>>

\* The same with a preamble before the emoji.
WithPreamble == <<"Here is the result:", NL>> \o CalendarB

\* Under 50 characters.
TooShort == <<EMOJI, SP, ECON, NL, EARN>>

\* A calendar followed by commentary.
WithNote == CalendarB \o <<NL, "NOTE:", " Data may change.">>

\* Neither marker.
NoMarker == <<"I could not find a calendar for that date, sorry about that.">>

\* What the text blocks of an API response can join to.
Responses == {<<>>, CalendarA, WithPreamble, TooShort, WithNote, NoMarker}

\* ---------------------------------------------------------------- retry wrapper

FETCH_MAX_RETRIES == 3
FETCH_BASE_DELAY == 2
POST_MAX_RETRIES == 3
POST_BASE_DELAY == 1

\* The exception classes the two external calls raise, each with its bases.
Bases(cls) ==
  IF cls = "APIConnectionError" THEN {"APIConnectionError", "APIError"}
  ELSE IF cls = "InternalServerError"
       THEN {"InternalServerError", "APIStatusError", "APIError"}
  ELSE IF cls = "AuthenticationError"
       THEN {"AuthenticationError", "APIStatusError", "APIError"}
  ELSE IF cls = "ConnectionError"
       THEN {"ConnectionError", "RequestException"}
  ELSE IF cls = "ReadTimeout"
       THEN {"ReadTimeout", "Timeout", "RequestException"}
  ELSE {cls}

FetchExceptions ==
  {"APIConnectionError", "InternalServerError", "AuthenticationError",
   "AttributeError"}

PostExceptions == {"ConnectionError", "ReadTimeout"}

\* except exceptions as e, at the fetch: (APIError, APIConnectionError)
FetchRetryable(exc) ==
  Bases(exc) \cap {"APIError", "APIConnectionError"} # {}

\* except exceptions as e, at the delivery: (RequestException,)
PostRetryable(exc) == Bases(exc) \cap {"RequestException"} # {}

\* The except clause with the last iteration taken one too late.
Retries_OneMore(attempt, max_retries, retryable) ==
  retryable /\ ~(attempt = max_retries)

\* The except clause of the wrapper on iteration attempt (from 0): TRUE when
\* it sleeps and goes round again, FALSE when the exception leaves the
\* wrapper (not of a listed class, or the last iteration).
Retries(attempt, max_retries, retryable) ==
  retryable /\ ~(attempt = max_retries - 1)

\* delay = base_delay * (2 ** attempt)
Delay(attempt, base_delay) == base_delay * (2 ^ attempt)

\* Entries of the record kept of one wrapped call.
LogCall(k) == [e |-> "call", n |-> k]
LogFail(retryable) == [e |-> "fail", n |-> IF retryable THEN 1 ELSE 0]
LogSleep(d) == [e |-> "sleep", n |-> d]
LogRaise == [e |-> "raise", n |-> 0]
LogReturn == [e |-> "return", n |-> 0]

\* ---------------------------------------------------------------- fetcher

\* get_tomorrow_calendar caching the response as received, not as validated.
FetchBody_SavesResponse(response) ==
  IF response = <<>> THEN
    [ret |-> None, checked |-> None, saved |-> None]
  ELSE
    LET calendar_text == Normalize(response)
    IN  IF ~validate_calendar(calendar_text).ok THEN
          [ret |-> None, checked |-> None, saved |-> None]
        ELSE
          [ret |-> Str(calendar_text), checked |-> Str(calendar_text),
           saved |-> Str(response)]

\* get_tomorrow_calendar caching a text that validate_calendar rejected.
FetchBody_SavesRejected(response) ==
  IF response = <<>> THEN
    [ret |-> None, checked |-> None, saved |-> None]
  ELSE
    LET calendar_text == Normalize(response)
    IN  IF ~validate_calendar(calendar_text).ok THEN
          [ret |-> None, checked |-> None, saved |-> Str(calendar_text)]
        ELSE
          [ret |-> Str(calendar_text), checked |-> Str(calendar_text),
           saved |-> Str(calendar_text)]

\* get_tomorrow_calendar from the joined response text on: what it returns,
\* the text validate_calendar accepted and the text handed to save_to_cache.
FetchBody(response) ==
  IF response = <<>> THEN
    [ret |-> None, checked |-> None, saved |-> None]
  ELSE
    LET calendar_text == Normalize(response)
    IN  IF ~validate_calendar(calendar_text).ok THEN
          [ret |-> None, checked |-> None, saved |-> None]
        ELSE
          [ret |-> Str(calendar_text), checked |-> Str(calendar_text),
           saved |-> Str(calendar_text)]

\* FetchBody of each response.
FetchBodyOf == [response \in Responses |-> FetchBody(response)]

\* ---------------------------------------------------------------- orchestrator

\* The configuration check without the webhook URL.
ConfigError_KeyOnly(api_key, webhook_url, dr) == ~api_key

\* The configuration check asking for the webhook URL in dry-run too.
ConfigError_UrlAlways(api_key, webhook_url, dr) == ~api_key \/ ~webhook_url

\* Lines 353-359: TRUE when main returns 1 for the configuration.
ConfigError(api_key, webhook_url, dr) ==
  ~api_key \/ (~webhook_url /\ ~dr)

\* Cache mode that drops what it loaded.
CacheMode_Ignored(cached) == [raised |-> FALSE, calendar |-> None]

\* Cache mode putting the banner before what it loaded.
CacheMode_Bannered(cached) ==
  IF ~PyTruthy(cached) THEN [raised |-> FALSE, calendar |-> None]
  ELSE IF cached.type # "dict" THEN [raised |-> TRUE, calendar |-> None]
  ELSE IF "content" \notin cached.keys THEN
    [raised |-> TRUE, calendar |-> None]
  ELSE [raised |-> FALSE,
        calendar |-> Str(<<WARN, " _Using cached data from ">> \o cached.date
                           \o <<"_", NL, NL>> \o cached.content)]

\* Lines 366-368, on the value loaded in cache mode.  cached.get raises on a
\* list, cached["content"] on a dict without the key.
CacheMode(cached) ==
  IF ~PyTruthy(cached) THEN [raised |-> FALSE, calendar |-> None]
  ELSE IF cached.type # "dict" THEN [raised |-> TRUE, calendar |-> None]
  ELSE IF "content" \notin cached.keys THEN
    [raised |-> TRUE, calendar |-> None]
  ELSE [raised |-> FALSE, calendar |-> Str(cached.content)]

\* f"{WARN} _Using cached data from {date}_\n\n{content}"
Banner(date, content) ==
  <<WARN, " _Using cached data from ">> \o date \o <<"_", NL, NL>> \o content

\* The fallback serving the cached content without the banner.
Fallback_NoBanner(cached) ==
  IF ~PyTruthy(cached) THEN [raised |-> FALSE, calendar |-> None]
  ELSE IF cached.type # "dict" THEN [raised |-> TRUE, calendar |-> None]
  ELSE IF "content" \in cached.keys THEN
    [raised |-> FALSE, calendar |-> Str(cached.content)]
  ELSE [raised |-> TRUE, calendar |-> None]

\* Lines 378-380, on the value loaded after a fetch exception.
Fallback(cached) ==
  IF ~PyTruthy(cached) THEN [raised |-> FALSE, calendar |-> None]
  ELSE IF cached.type # "dict" THEN [raised |-> TRUE, calendar |-> None]
  ELSE IF "content" \notin cached.keys THEN
    [raised |-> TRUE, calendar |-> None]
  ELSE [raised |-> FALSE,
        calendar |->
          Str(Banner(IF "date" \in cached.keys THEN cached.date
                     ELSE <<"unknown">>,
                     cached.content))]

\* main ignoring what post_to_slack returned.
ExitOfPost_AlwaysZero(success) == "return 0"

\* Lines 402-407
ExitOfPost(success) == IF success THEN "return 0" ELSE "return 1"

\* The status check taking any answer for a success.
PostSuccess_AnyResponse(status) == status >= 200

\* response.status_code == 200
PostSuccess(status) == status = 200

\* ---------------------------------------------------------------- state

\* Days a behaviour lets pass between runs.
MaxElapsed == 1

VARIABLES
  today,              \* datetime.now() of the current run, as a day number
  elapsed,            \* days passed since the first run
  cacheFile,          \* CACHE_FILE on disk
  pc,                 \* "idle", "fetch", "post" or "done": where main is
  dry_run,            \* argument of main
  use_cache,          \* argument of main
  ANTHROPIC_API_KEY,  \* TRUE when the environment sets it
  SLACK_WEBHOOK_URL,  \* TRUE when the environment sets it
  calendar,           \* main's local: None or a text
  attempt,            \* the wrapper's loop variable of the call in progress
  log,                \* per call site, the calls, sleeps and exit of the wrapper
  calls,              \* per run, the count of each external effect
  result,             \* "running", "return 0", "return 1", "uncaught exception"
  source,             \* how calendar was obtained: "cache", "fresh", "fallback"
  delivered,          \* the text handed to post_to_slack or printed
  success,            \* what post_to_slack gave main: "True", "False", "raised"
  validated,          \* the text validate_calendar accepted in this run
  tomorrow,           \* the day get_next_trading_day returned in this run
  fetch_exc,          \* the class the last API call raised, "none" if it returned
  status_code,        \* response.status_code of the webhook's answer, if any
  probe,              \* a text function, its input and its result
  lastSaved           \* the arguments of the last save_to_cache, if it wrote,
                      \* and whether it replaced a record

vars ==
  <<today, elapsed, cacheFile, pc, dry_run, use_cache, ANTHROPIC_API_KEY,
    SLACK_WEBHOOK_URL, calendar, attempt, log, calls, result, source,
    delivered, success, validated, tomorrow, fetch_exc, status_code, probe,
    lastSaved>>

NoCalls ==
  [search |-> 0, post |-> 0, accepted |-> 0, cacheRead |-> 0, cacheWrite |-> 0]

NoLog == [fetch |-> <<>>, post |-> <<>>]

NeverSaved ==
  [written |-> FALSE, replaced |-> FALSE, date |-> <<>>, content |-> <<>>,
   cached_at |-> <<>>]

\* No text function applied.
NoProbe ==
  [fn |-> "none", applied |-> FALSE, input |-> <<>>, output |-> <<>>,
   verdict |-> [ok |-> FALSE, reason |-> None], again |-> <<>>]

\* A JSON object that is not a record: it has no content.
NoContentFile ==
  FileOf("object", {"date"}, JsonEscape(<<LongDate(0)>>), <<>>, <<>>)

\* What CACHE_FILE can be before the first run, left by anything but a
\* validated fetch.
InitialFiles ==
  {NoFile, UnreadableFile, GarbageFile, NullFile, ArrayFile, EmptyObjectFile,
   NoContentFile}

Init ==
  /\ today \in 0..6
  /\ elapsed = 0
  /\ cacheFile \in InitialFiles
  /\ pc = "idle"
  /\ dry_run = FALSE
  /\ use_cache = FALSE
  /\ ANTHROPIC_API_KEY = FALSE
  /\ SLACK_WEBHOOK_URL = FALSE
  /\ calendar = None
  /\ attempt = 0
  /\ log = NoLog
  /\ calls = NoCalls
  /\ result = "running"
  /\ source = "none"
  /\ delivered = None
  /\ success = "unset"
  /\ validated = None
  /\ tomorrow = {}
  /\ fetch_exc = "none"
  /\ status_code = {}
  /\ probe = NoProbe
  /\ lastSaved = NeverSaved

\* main returns code.
Return(code) ==
  /\ pc' = "done"
  /\ result' = code
  /\ attempt' = 0

\* An exception no handler of main catches.
Uncaught ==
  /\ Return("uncaught exception")
  /\ calendar' = None
  /\ source' = "none"
  /\ delivered' = None

\* Lines 382-397 with calendar = cal, obtained by way src.
Deliver(cal, src, dr) ==
  /\ calendar' = cal
  /\ IF ~Truthy(cal) THEN
       /\ Return("return 1")
       /\ source' = "none"
       /\ delivered' = None
     ELSE IF dr THEN
       /\ Return("return 0")
       /\ source' = src
       /\ delivered' = cal
     ELSE
       /\ pc' = "post"
       /\ result' = "running"
       /\ attempt' = 0
       /\ source' = src
       /\ delivered' = cal

\* main, lines 345-372: from the call to the first external call or the end.
MainStart(dr, uc, api_key, webhook_url) ==
  /\ pc = "idle"
  /\ dry_run' = dr
  /\ use_cache' = uc
  /\ ANTHROPIC_API_KEY' = api_key
  /\ SLACK_WEBHOOK_URL' = webhook_url
  /\ UNCHANGED <<today, elapsed, cacheFile, log, success, validated, tomorrow,
                 fetch_exc, status_code, probe, lastSaved>>
  /\ IF ConfigError(api_key, webhook_url, dr) THEN
       /\ Return("return 1")
       /\ UNCHANGED <<calendar, calls, source, delivered>>
     ELSE
       LET cached == IF uc THEN load_from_cache(cacheFile) ELSE PyNone
           cm == CacheMode(cached)
       IN  /\ calls' = [calls EXCEPT !.cacheRead = IF uc THEN @ + 1 ELSE @]
           /\ IF cm.raised THEN Uncaught
              ELSE IF Truthy(cm.calendar) THEN Deliver(cm.calendar, "cache", dr)
              ELSE /\ pc' = "fetch"
                   /\ attempt' = 0
                   /\ result' = "running"
                   /\ calendar' = cm.calendar
                   /\ UNCHANGED <<source, delivered>>

\* One call of get_tomorrow_calendar by the wrapper, in which the API call
\* raises exc: the except clause of the wrapper and, when the exception leaves
\* it, the handler of main (lines 373-380) and what follows.
FetchRaises(exc) ==
  /\ pc = "fetch"
  /\ tomorrow' = {get_next_trading_day(today)}
  /\ fetch_exc' = exc
  /\ UNCHANGED <<today, elapsed, cacheFile, dry_run, use_cache,
                 ANTHROPIC_API_KEY, SLACK_WEBHOOK_URL, success, validated,
                 status_code, probe, lastSaved>>
  /\ LET tried == log.fetch \o
                    <<LogCall(attempt + 1), LogFail(FetchRetryable(exc))>>
     IN  IF Retries(attempt, FETCH_MAX_RETRIES, FetchRetryable(exc)) THEN
           /\ log' = [log EXCEPT !.fetch =
                        Append(tried, LogSleep(Delay(attempt, FETCH_BASE_DELAY)))]
           /\ attempt' = attempt + 1
           /\ calls' = [calls EXCEPT !.search = @ + 1]
           /\ UNCHANGED <<pc, calendar, result, source, delivered>>
         ELSE
           LET fb == Fallback(load_from_cache(cacheFile))
           IN  /\ log' = [log EXCEPT !.fetch = Append(tried, LogRaise)]
               /\ calls' = [calls EXCEPT !.search = @ + 1, !.cacheRead = @ + 1]
               /\ IF fb.raised THEN Uncaught
                  ELSE Deliver(fb.calendar, "fallback", dry_run)

\* One call of get_tomorrow_calendar in which the API call returns: the rest
\* of the function, the cache write (ending as io says) and main from line 382.
FetchResponds(response, io) ==
  /\ pc = "fetch"
  /\ LET body == FetchBodyOf[response]
         next_day == get_next_trading_day(today)
         date_str == LongDate(next_day)
     IN  /\ tomorrow' = {next_day}
         /\ log' = [log EXCEPT !.fetch =
                      @ \o <<LogCall(attempt + 1), LogReturn>>]
         /\ validated' = body.checked
         /\ IF body.saved.isNone THEN
              /\ io = "written"
              /\ calls' = [calls EXCEPT !.search = @ + 1]
              /\ UNCHANGED <<cacheFile, lastSaved>>
            ELSE
              /\ calls' = [calls EXCEPT !.search = @ + 1, !.cacheWrite = @ + 1]
              /\ cacheFile' =
                   save_to_cache(body.saved.text, date_str, today, cacheFile, io)
              /\ lastSaved' =
                   IF io = "written"
                   THEN [written |-> TRUE,
                         replaced |-> "content" \in cacheFile.keys,
                         date |-> <<date_str>>,
                         content |-> body.saved.text,
                         cached_at |-> <<IsoFormat(today)>>]
                   ELSE NeverSaved
         /\ Deliver(body.ret, "fresh", dry_run)
  /\ fetch_exc' = "none"
  /\ UNCHANGED <<today, elapsed, dry_run, use_cache, ANTHROPIC_API_KEY,
                 SLACK_WEBHOOK_URL, success, status_code, probe>>

\* The status codes the webhook answers with.
StatusCodes == {200, 204, 500}

\* One call of post_to_slack in which requests.post returns a response.
PostResponds(status) ==
  /\ pc = "post"
  /\ log' = [log EXCEPT !.post = @ \o <<LogCall(attempt + 1), LogReturn>>]
  /\ calls' = [calls EXCEPT !.post = @ + 1,
                            !.accepted = IF status \in 200..299 THEN @ + 1
                                         ELSE @]
  /\ success' = IF PostSuccess(status) THEN "True" ELSE "False"
  /\ Return(ExitOfPost(PostSuccess(status)))
  /\ status_code' = {status}
  /\ UNCHANGED <<today, elapsed, cacheFile, dry_run, use_cache,
                 ANTHROPIC_API_KEY, SLACK_WEBHOOK_URL, calendar, source,
                 delivered, validated, tomorrow, fetch_exc, probe, lastSaved>>

\* One call of post_to_slack in which requests.post raises exc.  A read
\* timeout is raised after the endpoint took the request.
PostRaises(exc) ==
  /\ pc = "post"
  /\ calls' = [calls EXCEPT !.post = @ + 1,
                            !.accepted = IF exc = "ReadTimeout" THEN @ + 1
                                         ELSE @]
  /\ UNCHANGED <<today, elapsed, cacheFile, dry_run, use_cache,
                 ANTHROPIC_API_KEY, SLACK_WEBHOOK_URL, calendar, source,
                 delivered, validated, tomorrow, fetch_exc, status_code, probe,
                 lastSaved>>
  /\ LET tried == log.post \o
                    <<LogCall(attempt + 1), LogFail(PostRetryable(exc))>>
     IN  IF Retries(attempt, POST_MAX_RETRIES, PostRetryable(exc)) THEN
           /\ log' = [log EXCEPT !.post =
                        Append(tried, LogSleep(Delay(attempt, POST_BASE_DELAY)))]
           /\ attempt' = attempt + 1
           /\ UNCHANGED <<pc, result, success>>
         ELSE
           /\ log' = [log EXCEPT !.post = Append(tried, LogRaise)]
           /\ success' = "raised"
           /\ Return("return 1")

\* The process has ended; the scheduler starts the next one, the same day or
\* the day after.
NextRun(days) ==
  /\ pc = "done"
  /\ elapsed + days <= MaxElapsed
  /\ elapsed' = elapsed + days
  /\ today' = today + days
  /\ pc' = "idle"
  /\ dry_run' = FALSE
  /\ use_cache' = FALSE
  /\ ANTHROPIC_API_KEY' = FALSE
  /\ SLACK_WEBHOOK_URL' = FALSE
  /\ calendar' = None
  /\ attempt' = 0
  /\ log' = NoLog
  /\ calls' = NoCalls
  /\ result' = "running"
  /\ source' = "none"
  /\ delivered' = None
  /\ success' = "unset"
  /\ validated' = None
  /\ tomorrow' = {}
  /\ fetch_exc' = "none"
  /\ status_code' = {}
  /\ UNCHANGED <<cacheFile, lastSaved, probe>>

Next ==
  \/ \E dr \in BOOLEAN, uc \in BOOLEAN, api_key \in BOOLEAN,
        webhook_url \in BOOLEAN :
       MainStart(dr, uc, api_key, webhook_url)
  \/ \E exc \in FetchExceptions : FetchRaises(exc)
  \/ \E response \in Responses, io \in WriteOutcomes :
       FetchResponds(response, io)
  \/ \E status \in StatusCodes : PostResponds(status)
  \/ \E exc \in PostExceptions : PostRaises(exc)
  \/ \E days \in 0..1 : NextRun(days)

Spec == Init /\ [][Next]_vars

\* ---------------------------------------------------------------- properties

\* The value load_from_cache returns now is a dict with a content entry.
HasRecord == 
  LET cached == load_from_cache(cacheFile)
  IN  cached.type = "dict" /\ "content" \in cached.keys

\* main saw the configuration as complete.
ConfigPresent == ANTHROPIC_API_KEY /\ (SLACK_WEBHOOK_URL \/ dry_run)

\* The record kept of a wrapped call in which every attempt failed with a
\* listed exception, for the wrapper's base delay.
ExhaustedLog(base) ==
  <<LogCall(1), LogFail(TRUE), LogSleep(base),
    LogCall(2), LogFail(TRUE), LogSleep(2 * base),
    LogCall(3), LogFail(TRUE), LogRaise>>

\* C1: whatever content the cache slot holds passes validate_calendar, and a
\* run that called save_to_cache called it with exactly the text that
\* validate_calendar accepted in that run's fetch, which is also the text the
\* fetch returned; a run whose calendar came from the cache or the fallback
\* has written nothing.
C1_CachedOnlyIfValidated ==
  /\ HasRecord => validate_calendar(load_from_cache(cacheFile).content).ok
  /\ calls.cacheWrite > 0 =>
       /\ ~validated.isNone
       /\ source = "fresh"
       /\ calendar = validated
       /\ lastSaved.written =>
            /\ lastSaved.content = validated.text
            /\ load_from_cache(cacheFile).content = validated.text
  /\ source \in {"cache", "fallback"} => calls.cacheWrite = 0

\* A run cached a text that differs from the response it was made from.
C1_Witness ==
  /\ calls.cacheWrite = 1
  /\ lastSaved.written
  /\ HasRecord
  /\ load_from_cache(cacheFile).content = Normalize(CalendarA)
  /\ Normalize(CalendarA) # CalendarA

\* C2 (as claimed): main returns 1 for lack of calendar text only when the
\* cache holds no loadable record, whatever way the fetch failed.
C2_FailsOnlyWithoutCache ==
  (/\ pc = "done"
   /\ result = "return 1"
   /\ ConfigPresent
   /\ ~Truthy(calendar)) => ~HasRecord

\* C3: with the credential missing, or the webhook URL missing outside
\* dry-run, main returns 1 and the run has made no search call, no webhook
\* post, no cache read and no cache write.
C3_ConfigFailureBeforeAnyEffect ==
  (pc # "idle" /\ (~ANTHROPIC_API_KEY \/ (~SLACK_WEBHOOK_URL /\ ~dry_run))) =>
    /\ pc = "done"
    /\ result = "return 1"
    /\ calls.search = 0
    /\ calls.post = 0
    /\ calls.cacheRead = 0
    /\ calls.cacheWrite = 0
    /\ log = NoLog

\* A cache-mode run over a cache record stopped by the missing webhook URL.
C3_Witness ==
  /\ pc = "done"
  /\ ANTHROPIC_API_KEY
  /\ ~SLACK_WEBHOOK_URL
  /\ ~dry_run
  /\ use_cache
  /\ HasRecord
  /\ result = "return 1"

\* C4: when the fetch failed on all 3 attempts with a retryable error and the
\* cache holds a loadable record, the text handed to delivery is the banner
\* naming the record's date followed by the record's content, and main
\* returns 0 when the delivery of it succeeds.
C4_FallbackServesBanneredCache ==
  (/\ log.fetch = ExhaustedLog(2)
   /\ HasRecord
   /\ "date" \in load_from_cache(cacheFile).keys) =>
    LET cached == load_from_cache(cacheFile)
    IN  /\ source = "fallback"
        /\ ~delivered.isNone
        /\ delivered.text =
             <<WARN, " _Using cached data from ">> \o cached.date
               \o <<"_", NL, NL>> \o cached.content
        /\ success = "True" => result = "return 0"
        /\ dry_run => result = "return 0"

\* The fallback text was posted and main returned 0, for a record of an
\* earlier day.
C4_Witness ==
  /\ log.fetch = ExhaustedLog(2)
  /\ HasRecord
  /\ load_from_cache(cacheFile).date # <<LongDate(get_next_trading_day(today))>>
  /\ success = "True"
  /\ result = "return 0"

SleepsOf(lg) ==
  LET sleeps == SelectSeq(lg, LAMBDA x : x.e = "sleep")
  IN  [i \in 1..Len(sleeps) |-> sleeps[i].n]

IsPrefix(s, t) == Len(s) <= Len(t) /\ s = SubSeq(t, 1, Len(s))

\* The rules of one wrapped call, for the wrapper's base delay.
RetryDiscipline(lg, base) ==
  /\ Len(SelectSeq(lg, LAMBDA x : x.e = "call")) <= 3
  /\ \A i \in 1..Len(lg) :
       /\ lg[i].e = "call" =>
            /\ lg[i].n = Len(SelectSeq(SubSeq(lg, 1, i), LAMBDA x : x.e = "call"))
            /\ i < Len(lg)
            /\ lg[i + 1].e \in {"fail", "return"}
       /\ lg[i] = LogFail(TRUE) =>
            /\ i < Len(lg)
            /\ lg[i - 1].n < 3 =>
                 lg[i + 1] = LogSleep(base * 2 ^ (lg[i - 1].n - 1))
            /\ lg[i - 1].n = 3 => lg[i + 1] = LogRaise
       /\ lg[i].e = "sleep" => i = Len(lg) \/ lg[i + 1] = LogCall(lg[i - 2].n + 1)
       /\ lg[i].e \in {"return", "raise"} => i = Len(lg)

\* C6: at the fetch and at the delivery the wrapped function is called at most
\* 3 times; a retryable failure of attempt k < 3 is followed by a sleep of
\* base_delay * 2^(k-1) (2 then 4 at the fetch, 1 then 2 at the delivery) and
\* then attempt k+1; a retryable failure of attempt 3 is re-raised with no
\* sleep; an attempt that returns ends the call.
C6_RetryBoundedWithBackoff ==
  /\ calls.search <= 3
  /\ calls.post <= 3
  /\ calls.search = Len(SelectSeq(log.fetch, LAMBDA x : x.e = "call"))
  /\ calls.post = Len(SelectSeq(log.post, LAMBDA x : x.e = "call"))
  /\ RetryDiscipline(log.fetch, 2)
  /\ RetryDiscipline(log.post, 1)
  /\ IsPrefix(SleepsOf(log.fetch), <<2, 4>>)
  /\ IsPrefix(SleepsOf(log.post), <<1, 2>>)

\* Both call sites ran out of attempts in one run.
C6_Witness ==
  /\ log.fetch = ExhaustedLog(2)
  /\ log.post = ExhaustedLog(1)
  /\ SleepsOf(log.fetch) = <<2, 4>>
  /\ SleepsOf(log.post) = <<1, 2>>

\* C7: a run that obtained calendar text and is no dry-run ends as the
\* delivery ended: it returns 0 exactly when post_to_slack returned true, and
\* 1 when it returned false or raised after its last attempt.
C7_DeliveryDecidesStatus ==
  (pc = "done" /\ Truthy(calendar) /\ ~dry_run) =>
    /\ success \in {"True", "False", "raised"}
    /\ result = "return 0" <=> success = "True"
    /\ success \in {"False", "raised"} => result = "return 1"
    /\ success = "raised" => log.post = ExhaustedLog(1)

\* A fresh calendar whose delivery was refused: main returned 1.
C7_Witness ==
  /\ pc = "done"
  /\ source = "fresh"
  /\ ~dry_run
  /\ success = "False"
  /\ result = "return 1"

\* C8: a dry-run that obtained calendar text returns 0 and has not called the
\* webhook; a dry-run never calls the webhook, and with the credential set
\* it gets past the configuration check whether or not the webhook URL is set.
C8_DryRunSkipsDelivery ==
  /\ (pc = "done" /\ dry_run /\ Truthy(calendar)) =>
       /\ result = "return 0"
       /\ delivered = calendar
  /\ (pc # "idle" /\ dry_run) =>
       /\ calls.post = 0
       /\ calls.accepted = 0
       /\ log.post = <<>>
       /\ success = "unset"
  /\ (pc = "done" /\ dry_run /\ ANTHROPIC_API_KEY /\ ~use_cache) =>
       calls.search > 0

\* A dry-run without a webhook URL printed a fresh calendar and returned 0.
C8_Witness ==
  /\ pc = "done"
  /\ dry_run
  /\ ~SLACK_WEBHOOK_URL
  /\ source = "fresh"
  /\ result = "return 0"

\* C9: after a fetch whose save_to_cache wrote the file, load_from_cache
\* returns exactly the record of that fetch (its date, its content, its
\* cached_at and no other key), whatever the file held before; with no cache
\* file load_from_cache returns None.
C9_SingleSlotRoundTrip ==
  /\ lastSaved.written =>
       load_from_cache(cacheFile) =
         PyDict({"date", "content", "cached_at"}, lastSaved.date,
                lastSaved.content, lastSaved.cached_at)
  /\ cacheFile.kind = "missing" => load_from_cache(cacheFile) = PyNone

\* A second fetch, a day later, wrote over the record of the first.
C9_Witness ==
  /\ lastSaved.written
  /\ lastSaved.replaced
  /\ elapsed > 0
  /\ lastSaved.cached_at = <<IsoFormat(today)>>
  /\ calls.cacheWrite = 1

\* C10: the day get_next_trading_day returned is today + 1 on Monday to
\* Thursday, + 3 on Friday, + 2 on Saturday, + 1 on Sunday; it is a Monday to
\* Friday and every day between today and it is a Saturday or a Sunday.
C10_NextTradingDay ==
  \A next_day \in tomorrow :
    /\ Weekday(today) \in 0..3 => next_day = today + 1
    /\ Weekday(today) = 4 => next_day = today + 3
    /\ Weekday(today) = 5 => next_day = today + 2
    /\ Weekday(today) = 6 => next_day = today + 1
    /\ next_day > today
    /\ next_day % 7 \in 0..4
    /\ \A d \in (today + 1)..(next_day - 1) : d % 7 \in {5, 6}

\* A fetch on a Saturday computed the Monday after it.
C10_Witness ==
  /\ today % 7 = 5
  /\ tomorrow = {today + 2}

\* The last entry of the record of a wrapped call.
Last(lg) == lg[Len(lg)]

\* C11 (as claimed): the fetch goes round again only after a connection
\* failure or a server-side error; an exception of any other class leaves the
\* wrapper on the attempt that raised it; an empty or rejected response ends
\* the call on its attempt with no result and nothing raised.
C11_RetriedOnlyOnTransient ==
  /\ (pc = "fetch" /\ attempt > 0) =>
       fetch_exc \in {"APIConnectionError", "InternalServerError"}
  /\ fetch_exc \in {"AuthenticationError", "AttributeError"} =>
       /\ pc # "fetch"
       /\ Last(log.fetch) = LogRaise
  /\ (log.fetch # <<>> /\ Last(log.fetch) = LogReturn /\ validated.isNone) =>
       /\ pc = "done"
       /\ calendar = None
       /\ fetch_exc = "none"
       /\ result = "return 1"

\* C12: a webhook answer outside 2xx ends the call of post_to_slack: the POST
\* that got it is the last one (the only one when no POST before it raised),
\* nothing is raised, post_to_slack returns false and main returns 1.
C12_Non2xxNotRetried ==
  \A status \in status_code :
    status \notin 200..299 =>
      /\ pc = "done"
      /\ success = "False"
      /\ result = "return 1"
      /\ Last(log.post) = LogReturn
      /\ log.post[Len(log.post) - 1] = LogCall(calls.post)
      /\ (\A i \in 1..Len(log.post) : log.post[i].e # "fail") => calls.post = 1

\* The first POST was answered 500 and main returned 1 after that one POST.
C12_Witness ==
  /\ status_code = {500}
  /\ calls.post = 1
  /\ log.post = <<LogCall(1), LogReturn>>
  /\ result = "return 1"

\* C13 (as claimed): whatever the cache file holds, main ends with a return
\* and never with an uncaught exception; and a fetch whose cache write failed
\* still returns the validated text.
C13_CacheFailuresNonFatal ==
  /\ result # "uncaught exception"
  /\ (calls.cacheWrite > 0 /\ ~lastSaved.written) =>
       /\ ~validated.isNone
       /\ calendar = validated
       /\ source = "fresh"

\* ---------------------------------------------------------------- pure functions

\* The state of main, which a call of a pure function leaves alone.
mainVars ==
  <<today, elapsed, cacheFile, pc, dry_run, use_cache, ANTHROPIC_API_KEY,
    SLACK_WEBHOOK_URL, calendar, attempt, log, calls, result, source,
    delivered, success, validated, tomorrow, fetch_exc, status_code,
    lastSaved>>

\* The module is loaded and main has not been called.
Unstarted ==
  /\ today = 0
  /\ elapsed = 0
  /\ cacheFile = NoFile
  /\ pc = "idle"
  /\ dry_run = FALSE
  /\ use_cache = FALSE
  /\ ANTHROPIC_API_KEY = FALSE
  /\ SLACK_WEBHOOK_URL = FALSE
  /\ calendar = None
  /\ attempt = 0
  /\ log = NoLog
  /\ calls = NoCalls
  /\ result = "running"
  /\ source = "none"
  /\ delivered = None
  /\ success = "unset"
  /\ validated = None
  /\ tomorrow = {}
  /\ fetch_exc = "none"
  /\ status_code = {}
  /\ lastSaved = NeverSaved

\* The texts of at most n atoms drawn from S.
TextsUpTo(S, n) == UNION {[1..k -> S] : k \in 0..n}

\* A call of fn on text, not yet made.
ProbeOf(fn, text) == [NoProbe EXCEPT !.fn = fn, !.input = text]

\* -- validate_calendar

MaxValidateLen == 5

\* A line of a calendar, long enough to carry a text past 50 characters.
PAD == " 10:00 ET: ISM Manufacturing PMI"

\* The six phrases of the denylist, as a response may spell them.
NoteAtoms ==
  {"Important Note", "NOTE:", "Disclaimer", "not available", "SHUTDOWN",
   "Beyond Current"}

\* The text with every "Note:" replaced by the atom note.
WithNoteAtom(text, note) ==
  [i \in 1..Len(text) |-> IF text[i] = "Note:" THEN note ELSE text[i]]

ValidateInputs ==
  {WithNoteAtom(text, note) :
     text \in TextsUpTo({EMOJI, SP, ECON, EARN, PAD, "Note:"}, MaxValidateLen),
     note \in NoteAtoms \cup {"Note:"}}

InitValidate ==
  /\ Unstarted
  /\ probe \in {ProbeOf("validate_calendar", text) : text \in ValidateInputs}

\* is_valid, error = validate_calendar(text)
ApplyValidate ==
  /\ probe.fn = "validate_calendar"
  /\ ~probe.applied
  /\ probe' = [probe EXCEPT !.applied = TRUE,
                            !.verdict = validate_calendar(probe.input)]
  /\ UNCHANGED mainVars

NextValidate == ApplyValidate

SpecValidate == InitValidate /\ [][NextValidate]_vars

\* -- bold_watchlist_tickers

MaxBoldLen == 4

\* A US symbol, a Canadian symbol with its suffix in mixed case, and a token
\* that only contains a symbol.
BoldAtoms == {LPAREN, RPAREN, STAR, "AAPL", "Shop.to", "AAPLX"}

BoldInputs == TextsUpTo(BoldAtoms, MaxBoldLen)

InitBold ==
  /\ Unstarted
  /\ probe \in {ProbeOf("bold_watchlist_tickers", text) : text \in BoldInputs}

\* bold_watchlist_tickers(text), and the function applied to its own output
ApplyBold ==
  /\ probe.fn = "bold_watchlist_tickers"
  /\ ~probe.applied
  /\ LET bolded == bold_watchlist_tickers(probe.input)
     IN  probe' = [probe EXCEPT !.applied = TRUE,
                                !.output = bolded,
                                !.again = bold_watchlist_tickers(bolded)]
  /\ UNCHANGED mainVars

NextBold == ApplyBold

SpecBold == InitBold /\ [][NextBold]_vars

\* -- the marker loop

MaxStripLen == 4

StripAtoms == {EMOJI, HEADER, "Sure. ", NL, ECON}

StripInputs == TextsUpTo(StripAtoms, MaxStripLen)

InitStrip ==
  /\ Unstarted
  /\ probe \in {ProbeOf("StripPreamble", text) : text \in StripInputs}

\* Lines 294-301 on calendar_text
ApplyStrip ==
  /\ probe.fn = "StripPreamble"
  /\ ~probe.applied
  /\ probe' = [probe EXCEPT !.applied = TRUE,
                            !.output = StripPreamble(probe.input)]
  /\ UNCHANGED mainVars

NextStrip == ApplyStrip

SpecStrip == InitStrip /\ [][NextStrip]_vars

\* The atoms of a text.
Atoms(text) == {text[i] : i \in 1..Len(text)}

\* The first atom of the text that is not white space ("" when there is none).
FirstInk(text) ==
  LET ink == {i \in 1..Len(text) : text[i] \notin {SP, NL}}
  IN  IF ink = {} THEN ""
      ELSE text[CHOOSE i \in ink : \A j \in ink : i <= j]

\* The text holds one of the six phrases of the denylist, in any case.
Denylisted(text) ==
  \E a \in Atoms(text) :
    Lower(a) \in {"important note", "note:", "disclaimer", "not available",
                  "shutdown", "beyond current"}

\* C14: validate_calendar accepts a text exactly when it is not empty, has at
\* least 50 characters, starts with the emoji once trimmed, holds both section
\* labels and none of the six denylisted phrases in any case; a rejection
\* carries a reason and an acceptance carries none.
C14_ValidateAcceptsIff ==
  (probe.fn = "validate_calendar" /\ probe.applied) =>
    LET text == probe.input
        rejects ==
          \/ text = <<>>
          \/ TextLen(text) < 50
          \/ FirstInk(text) # EMOJI
          \/ ECON \notin Atoms(text)
          \/ EARN \notin Atoms(text)
          \/ Denylisted(text)
    IN  /\ probe.verdict.ok <=> ~rejects
        /\ probe.verdict.ok => probe.verdict.reason.isNone
        /\ ~probe.verdict.ok => Truthy(probe.verdict.reason)

\* A text with leading white space and both labels was rejected for nothing
\* but a denylisted phrase in upper case; without the phrase it is accepted.
C14_Witness ==
  /\ probe.fn = "validate_calendar"
  /\ probe.applied
  /\ probe.input = <<EMOJI, ECON, EARN, PAD, "SHUTDOWN">>
  /\ ~probe.verdict.ok
  /\ validate_calendar(<<SP, EMOJI, ECON, EARN, PAD>>).ok

\* The positions of the text where "(" SYMBOL ")" stands, SYMBOL being a
\* whole watchlist symbol in any case.
TickerHits(text) ==
  {i \in 1..(Len(text) - 2) :
     /\ text[i] = LPAREN
     /\ text[i + 2] = RPAREN
     /\ \E k \in 1..Len(WATCHLIST_ALL) :
          Lower(text[i + 1]) = Lower(WATCHLIST_ALL[k])}

\* Where atom j of the text stands once every hit has received its two stars.
BoldedPos(text, j) ==
  j + 2 * Cardinality({i \in TickerHits(text) : i + 1 < j})
    + (IF j - 1 \in TickerHits(text) THEN 1 ELSE 0)

\* C15: bold_watchlist_tickers puts a star on each side of SYMBOL in every
\* "(" SYMBOL ")" whose SYMBOL is, in any case, a whole watchlist symbol, and
\* changes nothing else: a token that only contains a symbol and a token
\* already between stars stay as they are; applied to its own output it
\* changes nothing.
C15_BoldExactlyWatchlist ==
  (probe.fn = "bold_watchlist_tickers" /\ probe.applied) =>
    LET text == probe.input
        out == probe.output
        hits == TickerHits(text)
    IN  /\ Len(out) = Len(text) + 2 * Cardinality(hits)
        /\ \A j \in 1..Len(text) : out[BoldedPos(text, j)] = text[j]
        /\ \A i \in hits :
             /\ out[BoldedPos(text, i + 1) - 1] = STAR
             /\ out[BoldedPos(text, i + 1) + 1] = STAR
        /\ TickerHits(out) = {}
        /\ probe.again = out

\* A symbol in mixed case was put between stars, once; a token that only
\* contains a symbol and a token already between stars are left alone.
C15_Witness ==
  /\ probe.fn = "bold_watchlist_tickers"
  /\ probe.applied
  /\ probe.input = <<LPAREN, "Shop.to", RPAREN, "AAPLX">>
  /\ probe.output = <<LPAREN, STAR, "Shop.to", STAR, RPAREN, "AAPLX">>
  /\ probe.again = probe.output
  /\ bold_watchlist_tickers(<<LPAREN, "AAPLX", RPAREN>>)
       = <<LPAREN, "AAPLX", RPAREN>>
  /\ bold_watchlist_tickers(<<LPAREN, STAR, "AAPL", STAR, RPAREN>>)
       = <<LPAREN, STAR, "AAPL", STAR, RPAREN>>

\* C16: a text that holds the emoji loses what stands before the first one; a
\* text without the emoji that holds the header loses what stands before the
\* first header and gets the emoji in front; either way the result begins
\* with the emoji; a text with neither marker is passed on as it is.
C16_PreambleStrip ==
  (probe.fn = "StripPreamble" /\ probe.applied) =>
    LET text == probe.input
        out == probe.output
        first(a) == CHOOSE i \in 1..Len(text) :
                      text[i] = a /\ \A j \in 1..(i - 1) : text[j] # a
    IN  IF EMOJI \in Atoms(text) THEN
          /\ out = SubSeq(text, first(EMOJI), Len(text))
          /\ out[1] = EMOJI
        ELSE IF HEADER \in Atoms(text) THEN
          /\ out = <<EMOJI, SP>> \o SubSeq(text, first(HEADER), Len(text))
          /\ out[1] = EMOJI
        ELSE out = text

\* The header stood behind a preamble, with no emoji in the text.
C16_Witness ==
  /\ probe.fn = "StripPreamble"
  /\ probe.applied
  /\ probe.input = <<"Sure. ", NL, HEADER, ECON>>
  /\ probe.output = <<EMOJI, SP, HEADER, ECON>>

\* C17: a step of main changes the cache file only in a call of
\* get_tomorrow_calendar that returns a validated text: the step is the fetch,
\* the run's calendar is that text, and the file then holds that text (or
\* nothing readable, when the write failed half way), never the banner; no
\* other step (configuration failure, cache-mode hit, fetch exception with or
\* without fallback, empty or rejected response, POST) touches the file.
C17_CacheFrame ==
  [][cacheFile' # cacheFile =>
       /\ pc = "fetch"
       /\ ~validated'.isNone
       /\ calendar' = validated'
       /\ source' = "fresh"
       /\ calls'.cacheWrite = calls.cacheWrite + 1
       /\ \/ cacheFile' = GarbageFile
          \/ /\ load_from_cache(cacheFile').type = "dict"
             /\ load_from_cache(cacheFile').content = validated'.text
             /\ Head(load_from_cache(cacheFile').content) # WARN]_vars

\* The fetch cached its text, every POST of it failed, main returned 1 and
\* the file still holds the text.
C17_Witness ==
  /\ pc = "done"
  /\ calls.cacheWrite = 1
  /\ lastSaved.written
  /\ success \in {"False", "raised"}
  /\ result = "return 1"
  /\ HasRecord
  /\ load_from_cache(cacheFile).content = validated.text

\* C18: the text handed to print or to post_to_slack starts with the banner
\* exactly when it came from the fallback after a fetch exception, and is then
\* the banner followed by the cached content; from a cache-mode hit it is the
\* cached content as stored, whatever date the record names; from a fresh
\* fetch it is the text the fetch returned.
C18_BannerIffFallback ==
  ~delivered.isNone =>
    LET cached == load_from_cache(cacheFile)
    IN  /\ StartsWith(delivered.text, WARN) <=> source = "fallback"
        /\ source \in {"fallback", "cache", "fresh"}
        /\ source = "fallback" =>
             /\ fetch_exc # "none"
             /\ Last(log.fetch) = LogRaise
             /\ Len(delivered.text) > Len(cached.content)
             /\ From(delivered.text,
                     Len(delivered.text) - Len(cached.content) + 1)
                  = cached.content
        /\ source = "cache" =>
             /\ use_cache
             /\ delivered.text = cached.content
        /\ source = "fresh" =>
             /\ fetch_exc = "none"
             /\ delivered = validated

\* A cache-mode hit served, without banner, a record that names another day
\* than the next trading day.
C18_Witness ==
  /\ source = "cache"
  /\ ~delivered.isNone
  /\ HasRecord
  /\ load_from_cache(cacheFile).date # <<LongDate(get_next_trading_day(today))>>
  /\ delivered.text = load_from_cache(cacheFile).content
  /\ ~StartsWith(delivered.text, WARN)

\* C19 (as claimed): in one run of main the webhook takes the calendar
\* message at most once.
C19_AtMostOnceDelivery == calls.accepted <= 1
====
